---- MODULE Spec2Model ----
(***************************************************************************)
(* The multi-factor registration wizard of the portfolio-risk frontend:    *)
(* the useRegistration hook (the session), the step components that drive  *)
(* it (RegistrationStep1, EmailVerification, PhoneVerification, TOTPSetup, *)
(* TOTPVerification, RegistrationComplete), the RegistrationWizard that    *)
(* mounts one of them, and the Identity Service seen as the set of         *)
(* requests in flight and the answers it may give. Beside it, the client   *)
(* side of authentication: the tokens in localStorage, the auth store, the *)
(* Navbar's logout and the axios instance with its 401 interceptor.        *)
(*                                                                         *)
(* Strings the code inspects character by character (form fields, codes)   *)
(* are sequences of one-character strings; messages are plain strings.     *)
(* null / undefined is None == <<>>, a present value v is Some(v) == <<v>>.*)
(***************************************************************************)
EXTENDS Integers, Sequences, FiniteSets, Bags, TLC

VARIABLES
    state,      \* RegistrationState of useRegistration (useState)
    pending,    \* requests in flight: the bag of unanswered fetches
    rendered,   \* the step whose component the wizard has mounted
    ui,         \* local useState values of the mounted step component
    auth        \* the authenticated client: localStorage, the auth store,
                \* the Navbar, the page shown, axios requests in flight

vars == <<state, pending, rendered, ui, auth>>

\* ------------------------------------------------------------------ bounds

\* requests that may be in flight at once
MaxPending == 2
\* length of the code countdown in ticks (300 one-second ticks in the source)
CodeWindow == 2
\* length of the TOTP display countdown in ticks (30 in the source)
TotpPeriod == 2
\* code submissions a verification component makes: the attempts it counts,
\* or the declined submissions where it keeps no count
MaxAttempts == 2
\* API requests of the axios instance that may be in flight at once
MaxRequests == 2

\* ------------------------------------------------------------------ values

None == <<>>
Some(v) == <<v>>

Digits == {"0", "1", "2", "3", "4", "5", "6", "7", "8", "9"}
Lower == {"a", "b", "c", "d", "e", "f", "g", "h", "i", "j", "k", "l", "m",
          "n", "o", "p", "q", "r", "s", "t", "u", "v", "w", "x", "y", "z"}
Upper == {"A", "B", "C", "D", "E", "F", "G", "H", "I", "J", "K", "L", "M",
          "N", "O", "P", "Q", "R", "S", "T", "U", "V", "W", "X", "Y", "Z"}
Whitespace == {" "}

\* s.replace(re, ''): s without the characters of the set drop
RECURSIVE Strip(_, _)
Strip(s, drop) ==
    IF s = <<>> THEN <<>>
    ELSE IF Head(s) \in drop THEN Strip(Tail(s), drop)
         ELSE <<Head(s)>> \o Strip(Tail(s), drop)

AllIn(s, set) == \A k \in 1..Len(s) : s[k] \in set
SomeIn(s, set) == \E k \in 1..Len(s) : s[k] \in set

\* ------------------------------------------------- RegistrationStep1 checks

\* /^[^\s@]+@[^\s@]+\.[^\s@]+$/
EmailRegex(s) ==
    \E i \in 1..Len(s), j \in 1..Len(s) :
        /\ 1 < i /\ i + 1 < j /\ j < Len(s)
        /\ s[i] = "@" /\ s[j] = "."
        /\ \A k \in 1..Len(s) : k # i => s[k] \notin (Whitespace \cup {"@"})

\* /^[\+]?[1-9][\d]{0,15}$/
PhoneRegex(s) ==
    LET d == IF s # <<>> /\ Head(s) = "+" THEN Tail(s) ELSE s
    IN  /\ Len(d) >= 1 /\ Len(d) <= 16
        /\ d[1] \in Digits \ {"0"}
        /\ AllIn(d, Digits)

FieldNames == {"username", "email", "full_name", "phone_number", "password",
               "confirmPassword"}

\* validateField: TRUE when the field has an error message
FieldError(field, value, formData) ==
    CASE field = "username" ->
            \/ Len(value) < 3
            \/ Len(value) > 50
            \/ ~AllIn(value, Lower \cup Upper \cup Digits \cup {"_"})
      [] field = "email" -> ~EmailRegex(value)
      [] field = "full_name" -> Len(value) < 1 \/ Len(value) > 255
      [] field = "phone_number" ->
            ~PhoneRegex(Strip(value, Whitespace \cup {"-", "(", ")"}))
      [] field = "password" ->
            \/ Len(value) < 8
            \/ ~SomeIn(value, Lower)
            \/ ~SomeIn(value, Upper)
            \/ ~SomeIn(value, Digits)
      [] field = "confirmPassword" -> value # formData.password
      [] OTHER -> FALSE

\* a validateForm that forgets the confirmPassword field
FormErrorsWithoutConfirm(formData) ==
    {f \in FieldNames \ {"confirmPassword"} : FieldError(f, formData[f], formData)}
\* validateForm: the fields of formData that fail validateField
FormErrors(formData) ==
    {f \in FieldNames : FieldError(f, formData[f], formData)}


\* ------------------------------------------------------- useRegistration

\* JavaScript truthiness of an optional number (null, undefined and 0 are
\* falsy), of an optional message string and of an optional character string
\* (null, undefined and '' are falsy)
TruthyNumber(m) == m # None /\ m[1] # 0
TruthyMessage(m) == m # None /\ m[1] # ""
TruthyString(m) == m # None /\ m[1] # <<>>

\* a || b, for message strings
Or(m, b) == IF TruthyMessage(m) THEN m[1] ELSE b

\* the state useState is initialised with
InitialState ==
    [currentStep |-> 1, userId |-> None, email |-> <<>>, phone |-> <<>>,
     qrCode |-> None, backupCodes |-> None, isLoading |-> FALSE,
     error |-> None]

\* a setError that leaves the operation loading
setErrorKeepsLoading(s, error) == [s EXCEPT !.error = error]
\* setError(error): updateState({ error, isLoading: false })
setError(s, error) == [s EXCEPT !.error = error, !.isLoading = FALSE]

\* a start that leaves the last error in place
StartLoadingKeepsError(s) == [s EXCEPT !.isLoading = TRUE]
\* updateState({ isLoading: true, error: null }), the start of every operation
StartLoading(s) == [s EXCEPT !.isLoading = TRUE, !.error = None]

\* a request handed to fetch; email and phone_number are the form values the
\* register-step1 continuation reads back from its closure
Request(endpoint, user_id, code, method, email, phone_number) ==
    [endpoint |-> endpoint, user_id |-> user_id, code |-> code,
     method |-> method, email |-> email, phone_number |-> phone_number]

NoRequest == None

\* The synchronous part of each operation, up to its fetch: the state it
\* leaves and the request it sends (NoRequest when it returns false at once).
NoUserId(s) ==
    [state |-> setError(s, Some("No user ID found")), request |-> NoRequest]

registerStep1(s, data) ==
    IF data.password # data.confirmPassword
    THEN [state |-> setError(StartLoading(s), Some("Passwords do not match")),
          request |-> NoRequest]
    ELSE [state |-> StartLoading(s),
          request |-> Some(Request("register-step1", None, <<>>, "",
                                   data.email, data.phone_number))]

verifyEmail(s, code) ==
    IF ~TruthyNumber(s.userId) THEN NoUserId(s)
    ELSE [state |-> StartLoading(s),
          request |-> Some(Request("verify-email", s.userId, code, "", <<>>, <<>>))]

verifyPhone(s, code) ==
    IF ~TruthyNumber(s.userId) THEN NoUserId(s)
    ELSE [state |-> StartLoading(s),
          request |-> Some(Request("verify-phone", s.userId, code, "", <<>>, <<>>))]

setupTOTP(s) ==
    IF ~TruthyNumber(s.userId) THEN NoUserId(s)
    ELSE [state |-> StartLoading(s),
          request |-> Some(Request("setup-totp", s.userId, <<>>, "", <<>>, <<>>))]

verifyTOTP(s, code) ==
    IF ~TruthyNumber(s.userId) THEN NoUserId(s)
    ELSE [state |-> StartLoading(s),
          request |-> Some(Request("verify-totp", s.userId, code, "", <<>>, <<>>))]

resendCode(s, type) ==
    IF ~TruthyNumber(s.userId) THEN NoUserId(s)
    ELSE [state |-> StartLoading(s),
          request |-> Some(Request("request-otp", s.userId, <<>>, type, <<>>, <<>>))]

\* a reset that only moves the wizard back to its first step
resetRegistrationKeepsFields == [state EXCEPT !.currentStep = 1]
\* resetRegistration: setState of a literal, whatever the state was
resetRegistration ==
    [currentStep |-> 1, userId |-> None, email |-> <<>>, phone |-> <<>>,
     qrCode |-> None, backupCodes |-> None, isLoading |-> FALSE,
     error |-> None]

\* ------------------------------------------------------ Identity Service

\* What a fetch may end with. thrown: fetch rejected or response.json()
\* failed, with the Error's message; otherwise an HTTP response with its
\* ok flag and the fields of its JSON body (None when absent).
Response(thrown, ok, success, message, detail, user_id, qr_code, backup_codes) ==
    [thrown |-> thrown, ok |-> ok, success |-> success, message |-> message,
     detail |-> detail, user_id |-> user_id, qr_code |-> qr_code,
     backup_codes |-> backup_codes]

QrCode == <<"d", "a", "t", "a", ":", "q", "r">>
BackupCodes == << <<"A", "1", "B", "2">>, <<"C", "3", "D", "4">> >>

Accepted(user_id) ==
    Response(None, TRUE, TRUE, None, None, user_id, Some(QrCode), Some(BackupCodes))
Declined(message) ==
    Response(None, TRUE, FALSE, message, None, None, None, None)
HttpError(detail, message) ==
    Response(None, FALSE, FALSE, message, detail, None, None, None)
NetworkError ==
    Response(Some("Failed to fetch"), FALSE, FALSE, None, None, None, None, None)

Responses ==
    {Accepted(Some(42)), Accepted(None),
     Declined(Some("Invalid or expired code")), Declined(None),
     HttpError(Some("Username already registered"), None),
     NetworkError}

\* makeRequest: TRUE when it throws instead of returning the body
Throws(r) == r.thrown # None \/ ~r.ok

\* a makeRequest whose Error carries no message
ThrownMessageWithoutText(r) == ""
\* the message of the Error makeRequest throws
ThrownMessage(r) ==
    IF r.thrown # None THEN r.thrown[1]
    ELSE Or(r.detail, Or(r.message, "Request failed"))

DefaultMessage(endpoint) ==
    CASE endpoint = "register-step1" -> "Registration failed"
      [] endpoint = "verify-email" -> "Email verification failed"
      [] endpoint = "verify-phone" -> "Phone verification failed"
      [] endpoint = "setup-totp" -> "TOTP setup failed"
      [] endpoint = "verify-totp" -> "TOTP verification failed"
      [] endpoint = "request-otp" -> "Failed to resend code"

\* the boolean the operation's promise resolves to
Returns(r) == ~Throws(r) /\ r.success

\* a catch block that ignores the message of the failure
FailureMessageDefaultOnly(req, r) == DefaultMessage(req.endpoint)
\* the message the catch block hands to setError
FailureMessage(req, r) ==
    IF Throws(r) THEN ThrownMessage(r)
    ELSE Or(r.message, DefaultMessage(req.endpoint))

\* a registerStep1 that forgets to keep the phone number
registerStep1SuccessWithoutPhone(s, req, r) ==
    [s EXCEPT !.currentStep = 2, !.userId = r.user_id, !.email = req.email,
              !.isLoading = FALSE]
\* the updateState of each operation's success branch
registerStep1Success(s, req, r) ==
    [s EXCEPT !.currentStep = 2, !.userId = r.user_id, !.email = req.email,
              !.phone = req.phone_number, !.isLoading = FALSE]
verifyEmailSuccess(s) == [s EXCEPT !.currentStep = 3, !.isLoading = FALSE]
\* a verifyPhone that skips the TOTP setup step
verifyPhoneSuccessSkipsSetup(s) == [s EXCEPT !.currentStep = 5, !.isLoading = FALSE]
verifyPhoneSuccess(s) == [s EXCEPT !.currentStep = 4, !.isLoading = FALSE]
setupTOTPSuccess(s, r) ==
    [s EXCEPT !.currentStep = 5, !.qrCode = r.qr_code,
              !.backupCodes = r.backup_codes, !.isLoading = FALSE]
verifyTOTPSuccess(s) == [s EXCEPT !.currentStep = 6, !.isLoading = FALSE]
resendCodeSuccess(s) == [s EXCEPT !.isLoading = FALSE]

\* The part of an operation that runs when its fetch ends with r: the state
\* it leaves, applied to the state current at that time.
Settle(s, req, r) ==
    IF ~Returns(r) THEN setError(s, Some(FailureMessage(req, r)))
    ELSE CASE req.endpoint = "register-step1" -> registerStep1Success(s, req, r)
           [] req.endpoint = "verify-email" -> verifyEmailSuccess(s)
           [] req.endpoint = "verify-phone" -> verifyPhoneSuccess(s)
           [] req.endpoint = "setup-totp" -> setupTOTPSuccess(s, r)
           [] req.endpoint = "verify-totp" -> verifyTOTPSuccess(s)
           [] req.endpoint = "request-otp" -> resendCodeSuccess(s)

\* What the caller of an operation has once its fetch has ended with r: the
\* boolean its promise resolves to and the state of the hook.
Outcome(s, req, r) == [returned |-> Returns(r), state |-> Settle(s, req, r)]


\* -------------------------------------------------------- step components

CodeLength == 6
EmptyCode == [k \in 1..CodeLength |-> ""]

\* code.join(''): the characters of the non-empty boxes
Join(code) == SelectSeq(code, LAMBDA c : c # "")

\* s.trim()
RECURSIVE TrimLeft(_)
TrimLeft(s) ==
    IF s # <<>> /\ Head(s) \in Whitespace THEN TrimLeft(Tail(s)) ELSE s
RECURSIVE TrimRight(_)
TrimRight(s) ==
    IF s # <<>> /\ s[Len(s)] \in Whitespace
    THEN TrimRight(SubSeq(s, 1, Len(s) - 1)) ELSE s
Trim(s) == TrimRight(TrimLeft(s))

\* The useState values a step component starts with when it is mounted.
\* code, focus: the six boxes and the focused box (0-based, as in the source);
\* timeLeft, canResend, isResending: Email/PhoneVerification;
\* attempts: Phone/TOTPVerification; showBackupOption, timeRemaining:
\* TOTPVerification; isLoading: TOTPSetup; errors: RegistrationStep1;
\* effectDue: the registration prop changed since TOTPSetup's effect last ran;
\* rejected: EmailVerification keeps no attempts count; this is the number of
\* its submissions the service has declined since it was mounted or a resend
\* succeeded (history only: no handler reads it);
\* renewed: a successful handleResend of PhoneVerification has restarted the
\* countdown since the component was mounted (history only).
FreshUi ==
    [code |-> EmptyCode, focus |-> 0, timeLeft |-> CodeWindow,
     canResend |-> FALSE, isResending |-> FALSE, attempts |-> 0,
     showBackupOption |-> FALSE, timeRemaining |-> TotpPeriod,
     isLoading |-> TRUE, effectDue |-> TRUE, errors |-> {}, rejected |-> 0,
     renewed |-> FALSE]

\* A request in flight with what runs in the component when it ends: cont
\* names the handler awaiting it ("none": nothing awaits it, or its component
\* is unmounted), attempts is the attempts value that handler closed over.
\* step records state.currentStep at the time of the call (history only: no
\* action reads it).
Call(req, cont, attempts, step) ==
    [req |-> req, cont |-> cont, attempts |-> attempts, step |-> step]

\* the calls of p once the component that made them is unmounted
RECURSIVE UnmountedFrom(_, _)
UnmountedFrom(p, calls) ==
    IF calls = {} THEN EmptyBag
    ELSE LET c == CHOOSE x \in calls : TRUE
         IN  (Call(c.req, "none", 0, c.step) :> p[c])
                 (+) UnmountedFrom(p, calls \ {c})
Unmounted(p) == UnmountedFrom(p, BagToSet(p))

Sent(p, c) == p (+) SetToBag({c})
Remove(p, c) == p (-) SetToBag({c})
InFlight == BagCardinality(pending)

\* a failure branch that only moves the focus
ClearCodeKeepsBoxes(u) == [u EXCEPT !.focus = 0]
\* setCode(['', ...]); inputRefs.current[0]?.focus()
ClearCode(u) == [u EXCEPT !.code = EmptyCode, !.focus = 0]

\* What the awaiting handler does in the component once the operation has
\* returned ret.
Continue(u, cont, attempts, ret) ==
    CASE cont \in {"EmailVerification.handleSubmit", "PhoneVerification.handleSubmit"} ->
            IF ret THEN u ELSE ClearCode(u)
      [] cont = "TOTPVerification.handleSubmit" ->
            IF ret THEN u
            ELSE [ClearCode(u) EXCEPT
                    !.showBackupOption = IF attempts >= 1 THEN TRUE ELSE @]
      [] cont = "EmailVerification.handleResend" ->
            [u EXCEPT !.timeLeft = IF ret THEN CodeWindow ELSE @,
                      !.canResend = IF ret THEN FALSE ELSE @,
                      !.isResending = FALSE]
      [] cont = "PhoneVerification.handleResend" ->
            [u EXCEPT !.timeLeft = IF ret THEN CodeWindow ELSE @,
                      !.canResend = IF ret THEN FALSE ELSE @,
                      !.attempts = IF ret THEN 0 ELSE @,
                      !.isResending = FALSE]
      [] cont = "TOTPSetup.useEffect" -> [u EXCEPT !.isLoading = FALSE]
      [] OTHER -> u

\* The history of the mounted component once call c has ended with r: in
\* EmailVerification one more declined submission, or none left after a
\* successful resend; in PhoneVerification a countdown restarted by a resend.
Observed(u, c, r) ==
    CASE c.cont = "EmailVerification.handleSubmit" /\ r.thrown = None /\ ~Returns(r) ->
            [u EXCEPT !.rejected = @ + 1]
      [] c.cont = "EmailVerification.handleResend" /\ Returns(r) ->
            [u EXCEPT !.rejected = 0]
      [] c.cont = "PhoneVerification.handleResend" /\ Returns(r) ->
            [u EXCEPT !.renewed = TRUE]
      [] OTHER -> u

\* A setState of the hook with the render that follows it: the wizard shows
\* the component of s.currentStep (keyed by it, so a changed step mounts a
\* fresh component and the handlers of the old one no longer act), and every
\* render hands the mounted component a new registration object.
Commit(s, p, u) ==
    /\ state' = s
    /\ rendered' = s.currentStep
    /\ auth' = auth
    /\ IF s.currentStep = rendered
       THEN /\ ui' = [u EXCEPT !.effectDue = TRUE]
            /\ pending' = p
       ELSE /\ ui' = FreshUi
            /\ pending' = Unmounted(p)

\* A component handler calling a hook operation: c is what the operation's
\* synchronous part gives, u the component state when it is called. When the
\* operation returns false without a request, the handler continues at once.
Invoke(c, u, cont, attempts) ==
    IF c.request = NoRequest
    THEN Commit(c.state, pending, Continue(u, cont, attempts, FALSE))
    ELSE /\ InFlight < MaxPending
         /\ Commit(c.state,
                   Sent(pending, Call(c.request[1], cont, attempts, state.currentStep)),
                   u)


\* ------------------------------------------------ the authenticated client

\* What the login endpoint and the refresh endpoint hand out.
LoginAnswer == [access_token |-> "a1", refresh_token |-> "r1", user_id |-> 7]
RefreshAnswer == [access_token |-> "a2", refresh_token |-> "r2"]

\* userId.toString() and parseInt(userId)
toString(n) == IF n = 7 THEN "7" ELSE "NaN"
parseInt(s) == IF s = "7" THEN 7 ELSE 0

\* localStorage: the three keys of the authentication (None: no such key)
EmptyStorage == [access_token |-> None, refresh_token |-> None, user_id |-> None]

\* the state useAuthStore is created with
InitialStore ==
    [user |-> None, accessToken |-> None, refreshToken |-> None,
     isAuthenticated |-> FALSE]

\* localStorage, store: as above; isLoggedIn: the Navbar's useState;
\* location: the page shown; requests: the requests of axiosInstance in
\* flight; settled: how the last request that ended was handed to its caller
\* (history only)
InitialAuth ==
    [localStorage |-> EmptyStorage, store |-> InitialStore,
     isLoggedIn |-> FALSE, location |-> "/", requests |-> EmptyBag,
     settled |-> None]

\* useAuthStore.login
login(a, accessToken, refreshToken, userId) ==
    [a EXCEPT !.store = [user |-> Some([id |-> userId]),
                         accessToken |-> Some(accessToken),
                         refreshToken |-> Some(refreshToken),
                         isAuthenticated |-> TRUE],
              !.localStorage = [access_token |-> Some(accessToken),
                                refresh_token |-> Some(refreshToken),
                                user_id |-> Some(toString(userId))]]

\* useAuthStore.setAuth of lib/auth-store: the user is left as it is
setAuth(a, accessToken, refreshToken) ==
    [a EXCEPT !.localStorage.access_token = Some(accessToken),
              !.localStorage.refresh_token = Some(refreshToken),
              !.store.accessToken = Some(accessToken),
              !.store.refreshToken = Some(refreshToken),
              !.store.isAuthenticated = TRUE]

\* useAuthStore.logout
logout(a) ==
    [a EXCEPT !.store = [user |-> None, accessToken |-> None,
                         refreshToken |-> None, isAuthenticated |-> FALSE],
              !.localStorage = [access_token |-> None, refresh_token |-> None,
                                user_id |-> None]]

\* useAuthStore.setUser
setUser(a, user) == [a EXCEPT !.store.user = Some(user)]

\* useAuthStore.checkAuth: the state it leaves and the boolean it returns
checkAuth(a) ==
    IF TruthyMessage(a.store.accessToken) /\ a.store.isAuthenticated
    THEN [auth |-> a, returned |-> TRUE]
    ELSE LET token == a.localStorage.access_token
             userId == a.localStorage.user_id
         IN  IF TruthyMessage(token) /\ TruthyMessage(userId)
             THEN [auth |-> [a EXCEPT !.store =
                                [user |-> Some([id |-> parseInt(userId[1])]),
                                 accessToken |-> token,
                                 refreshToken |-> a.localStorage.refresh_token,
                                 isAuthenticated |-> TRUE]],
                   returned |-> TRUE]
             ELSE [auth |-> a, returned |-> FALSE]

\* Navbar.handleLogout
handleLogout(a) ==
    [a EXCEPT !.localStorage = [access_token |-> None, refresh_token |-> None,
                                user_id |-> None],
              !.isLoggedIn = FALSE,
              !.location = "/"]

\* A request of axiosInstance: authorization is the token the request
\* interceptor put into its header (None: no header), _retry the flag the
\* response interceptor sets, refreshing TRUE while the interceptor awaits
\* the refresh call made for it.
ApiCall(authorization, retry, refreshing) ==
    [authorization |-> authorization, _retry |-> retry, refreshing |-> refreshing]

\* the request interceptor: the header of a request sent now
Authorization(a) ==
    IF TruthyMessage(a.localStorage.access_token)
    THEN a.localStorage.access_token ELSE None

\* window.location.href = '/login': the page is left, with its requests in
\* flight; the Navbar of the page loaded mounts logged out
Redirected(a) ==
    [a EXCEPT !.location = "/login", !.requests = EmptyBag, !.isLoggedIn = FALSE]

\* OnRejected without the test of _retry
OnRejectedAlwaysRefreshes(a, q, status) ==
    LET rest == [a EXCEPT !.requests = @ (-) SetToBag({q})]
    IN  IF status = 401
        THEN IF TruthyMessage(a.localStorage.refresh_token)
             THEN [rest EXCEPT !.requests = @ (+) SetToBag({ApiCall(q.authorization, TRUE, TRUE)})]
             ELSE [rest EXCEPT !.settled = Some("rejected")]
        ELSE [rest EXCEPT !.settled = Some("rejected")]

\* The response interceptor's error handler for request q answered with an
\* error status.
OnRejected(a, q, status) ==
    LET rest == [a EXCEPT !.requests = @ (-) SetToBag({q})]
    IN  IF status = 401 /\ ~q._retry
        THEN IF TruthyMessage(a.localStorage.refresh_token)
             THEN [rest EXCEPT !.requests = @ (+) SetToBag({ApiCall(q.authorization, TRUE, TRUE)})]
             ELSE [rest EXCEPT !.settled = Some("rejected")]
        ELSE [rest EXCEPT !.settled = Some("rejected")]

\* The interceptor once the refresh call made for q has ended: with the new
\* tokens (the original request is sent again), or with a failure (None).
OnRefreshed(a, q, answer) ==
    LET rest == [a EXCEPT !.requests = @ (-) SetToBag({q})]
    IN  IF answer # None
        THEN LET stored == [rest EXCEPT
                              !.localStorage.access_token = Some(answer[1].access_token),
                              !.localStorage.refresh_token = Some(answer[1].refresh_token)]
             IN  [stored EXCEPT !.requests =
                      @ (+) SetToBag({ApiCall(Authorization(stored), TRUE, FALSE)})]
        ELSE [Redirected([rest EXCEPT !.localStorage.access_token = None,
                                      !.localStorage.refresh_token = None])
                 EXCEPT !.settled = Some("rejected")]

\* ------------------------------------------------------------------ inputs

FormA ==
    [username |-> <<"b", "o", "b">>,
     email |-> <<"b", "@", "x", ".", "i", "o">>,
     full_name |-> <<"B">>,
     phone_number |-> <<"+", "1", "5", "5", "5">>,
     password |-> <<"P", "a", "s", "s", "w", "0", "r", "d">>,
     confirmPassword |-> <<"P", "a", "s", "s", "w", "0", "r", "d">>]

FormB ==
    [username |-> <<"a", "m", "y", "_", "1">>,
     email |-> <<"a", "@", "y", ".", "c", "o">>,
     full_name |-> <<"A">>,
     phone_number |-> <<"(", "4", "4", ")", " ", "2", "0", "-", "7">>,
     password |-> <<"S", "e", "c", "r", "e", "t", "1", "2">>,
     confirmPassword |-> <<"S", "e", "c", "r", "e", "t", "1", "2">>]

WithField(form, field, value) == [form EXCEPT ![field] = value]
WithPassword(form, value) ==
    [form EXCEPT !.password = value, !.confirmPassword = value]

ValidForms == {FormA, FormB}

\* each fails exactly one structural check
InvalidForms ==
    {WithField(FormA, "username", <<"a", "b">>),
     WithField(FormA, "username", <<"a", "-", "b">>),
     WithField(FormA, "email", <<"b", "@", "x">>),
     WithField(FormA, "full_name", <<>>),
     WithField(FormA, "phone_number", <<"0", "1", "2", "3">>),
     WithPassword(FormA, <<"P", "a", "s", "s", "0", "r", "d">>),
     WithPassword(FormA, <<"p", "a", "s", "s", "w", "0", "r", "d">>),
     WithPassword(FormA, <<"P", "A", "S", "S", "W", "0", "R", "D">>),
     WithPassword(FormA, <<"P", "a", "s", "s", "w", "o", "r", "d">>),
     WithField(FormA, "confirmPassword", <<"P", "a", "s", "s", "w", "0", "r", "D">>)}

\* what the user submits in the wizard
WizardForms == {FormA} \cup InvalidForms

\* what the user types into the box of an index: a digit, and in the last
\* box also a character that is no digit
TypedValues(index) == IF index = 5 THEN {"1", "x"} ELSE {"1"}

\* clipboard texts for handlePaste
PastedTexts ==
    {<<"1", "1", "1", "1", "1", "1">>,
     <<"1", "1", "1", "-", "1", "1", "1">>,
     <<"1", "1", "1", "1", "1">>}

\* answers to the backup-code prompt (None: the prompt was cancelled)
PromptAnswers == {None, Some(<<" ", "A", "1", "B", "2">>)}

\* ------------------------------------------------------------------ actions

Init ==
    /\ state = InitialState
    /\ pending = EmptyBag
    /\ rendered = 1
    /\ ui = FreshUi
    /\ auth = InitialAuth

\* RegistrationStep1.handleSubmit; the submit button is disabled while
\* state.isLoading
Step1Submit(formData) ==
    /\ rendered = 1
    /\ ~state.isLoading
    /\ IF FormErrors(formData) # {}
       THEN /\ ui' = [ui EXCEPT !.errors = FormErrors(formData)]
            /\ UNCHANGED <<state, pending, rendered, auth>>
       ELSE Invoke(registerStep1(state, formData),
                   [ui EXCEPT !.errors = {}], "none", 0)

\* handleSubmit of EmailVerification, PhoneVerification and TOTPVerification,
\* entered with component state u and the code handed to it (<<>>: none)
CodeToSubmit(u, verificationCode) ==
    IF verificationCode # <<>> THEN verificationCode ELSE Join(u.code)

\* the component state handleSubmit leaves before it awaits the operation:
\* nothing changes when it returns at once, else Phone/TOTPVerification count
\* the attempt
AfterHandleSubmit(u, verificationCode) ==
    IF Len(CodeToSubmit(u, verificationCode)) # CodeLength THEN u
    ELSE IF rendered \in {3, 5} THEN [u EXCEPT !.attempts = @ + 1]
         ELSE u

HandleSubmit(u, verificationCode) ==
    LET codeToSubmit == CodeToSubmit(u, verificationCode)
    IN  IF Len(codeToSubmit) # CodeLength
        THEN /\ ui' = AfterHandleSubmit(u, verificationCode)
             /\ UNCHANGED <<state, pending, rendered, auth>>
        ELSE CASE rendered = 2 ->
                    /\ u.rejected < MaxAttempts
                    /\ Invoke(verifyEmail(state, codeToSubmit),
                              AfterHandleSubmit(u, verificationCode),
                              "EmailVerification.handleSubmit", 0)
               [] rendered = 3 ->
                    /\ u.attempts < MaxAttempts
                    /\ Invoke(verifyPhone(state, codeToSubmit),
                              AfterHandleSubmit(u, verificationCode),
                              "PhoneVerification.handleSubmit", 0)
               [] rendered = 5 ->
                    /\ u.attempts < MaxAttempts
                    /\ Invoke(verifyTOTP(state, codeToSubmit),
                              AfterHandleSubmit(u, verificationCode),
                              "TOTPVerification.handleSubmit", u.attempts)

\* handleCodeChange(index, value) on the focused box
CodeChange(value) ==
    /\ rendered \in {2, 3, 5}
    /\ value \in TypedValues(ui.focus)
    /\ value # ui.code[ui.focus + 1]
    /\ LET index == ui.focus
           newCode == [ui.code EXCEPT ![index + 1] = value]
           u == [ui EXCEPT !.code = newCode,
                           !.focus = IF value # "" /\ index < 5
                                     THEN index + 1 ELSE index]
       IN  IF (\A k \in 1..CodeLength : newCode[k] # "") /\ value # ""
           THEN HandleSubmit(u, Join(newCode))
           ELSE /\ ui' = u
                /\ UNCHANGED <<state, pending, rendered, auth>>

\* handleKeyDown: Backspace in an empty box moves the focus back
KeyDownBackspace ==
    /\ rendered \in {2, 3, 5}
    /\ ui.code[ui.focus + 1] = "" /\ ui.focus > 0
    /\ ui' = [ui EXCEPT !.focus = @ - 1]
    /\ UNCHANGED <<state, pending, rendered, auth>>

\* handlePaste, bound to the first box
Paste(text) ==
    /\ rendered \in {2, 3, 5}
    /\ ui.focus = 0
    /\ LET pastedData == SelectSeq(text, LAMBDA c : c \in Digits)
       IN  IF Len(pastedData) = CodeLength
           THEN HandleSubmit([ui EXCEPT !.code = pastedData], pastedData)
           ELSE UNCHANGED vars

\* the Verify button: disabled while a box is empty or state.isLoading
SubmitButton ==
    /\ rendered \in {2, 3, 5}
    /\ \A k \in 1..CodeLength : ui.code[k] # ""
    /\ ~state.isLoading
    /\ HandleSubmit(ui, <<>>)

\* a countdown that enables the resend one tick early
TickEnablesEarly ==
    /\ rendered \in {2, 3}
    /\ ui' = IF ui.timeLeft <= 2
             THEN [ui EXCEPT !.timeLeft = IF @ <= 1 THEN 0 ELSE @ - 1,
                             !.canResend = TRUE]
             ELSE [ui EXCEPT !.timeLeft = @ - 1]
    /\ UNCHANGED <<state, pending, rendered, auth>>
\* a countdown that reports the expiry to the session when it reaches 0
TickExpiresSession ==
    /\ rendered \in {2, 3}
    /\ ui' = IF ui.timeLeft <= 1
             THEN [ui EXCEPT !.timeLeft = 0, !.canResend = TRUE]
             ELSE [ui EXCEPT !.timeLeft = @ - 1]
    /\ state' = IF ui.timeLeft <= 1
                THEN setError(state, Some("Invalid or expired code"))
                ELSE state
    /\ UNCHANGED <<pending, rendered, auth>>
\* the one-second interval of EmailVerification and PhoneVerification
Tick ==
    /\ rendered \in {2, 3}
    /\ ui' = IF ui.timeLeft <= 1
             THEN [ui EXCEPT !.timeLeft = 0, !.canResend = TRUE]
             ELSE [ui EXCEPT !.timeLeft = @ - 1]
    /\ UNCHANGED <<state, pending, rendered, auth>>

\* the one-second interval of TOTPVerification
TotpTick ==
    /\ rendered = 5
    /\ ui' = [ui EXCEPT !.timeRemaining = IF @ <= 1 THEN TotpPeriod ELSE @ - 1]
    /\ UNCHANGED <<state, pending, rendered, auth>>

\* the resend button of EmailVerification and PhoneVerification:
\* disabled={!canResend || isResending}
ResendOffered == rendered \in {2, 3} /\ ui.canResend /\ ~ui.isResending

\* PhoneVerification's email fallback button, never disabled
FallbackOffered == rendered = 3

\* handleResend
Resend ==
    /\ ResendOffered
    /\ IF rendered = 2
       THEN Invoke(resendCode(state, "email"), [ui EXCEPT !.isResending = TRUE],
                   "EmailVerification.handleResend", 0)
       ELSE Invoke(resendCode(state, "sms"), [ui EXCEPT !.isResending = TRUE],
                   "PhoneVerification.handleResend", 0)

\* PhoneVerification's "Send verification code to email instead"
EmailFallback ==
    /\ FallbackOffered
    /\ Invoke(resendCode(state, "email"), ui, "none", 0)

\* TOTPSetup's effect, run after every render that changed registration
TotpSetupEffect ==
    /\ rendered = 4
    /\ ui.effectDue
    /\ IF ~TruthyString(state.qrCode)
       THEN Invoke(setupTOTP(state), ui, "TOTPSetup.useEffect", 0)
       ELSE /\ ui' = [ui EXCEPT !.isLoading = FALSE, !.effectDue = FALSE]
            /\ UNCHANGED <<state, pending, rendered, auth>>

\* TOTPSetup.handleContinue: registration.state.currentStep = 5, an
\* assignment to the state object with no setState, so nothing renders
TotpSetupContinue ==
    /\ rendered = 4
    /\ ~ui.isLoading
    /\ state' = [state EXCEPT !.currentStep = 5]
    /\ UNCHANGED <<pending, rendered, ui, auth>>

\* TOTPVerification.handleBackupCode, offered while showBackupOption
BackupCode(answer) ==
    /\ rendered = 5
    /\ ui.showBackupOption
    /\ IF TruthyString(answer)
       THEN Invoke(verifyTOTP(state, Trim(answer[1])), ui,
                   "TOTPVerification.handleBackupCode", 0)
       ELSE UNCHANGED vars

\* the wizard's error banner, shown while state.error: setError(null)
DismissError ==
    /\ TruthyMessage(state.error)
    /\ Commit(setError(state, None), pending, ui)

\* RegistrationWizard.handleBack, offered while canGoBack
HandleBack ==
    /\ rendered \in {1, 6}
    /\ IF state.currentStep = 6
       THEN Commit(resetRegistration, pending, ui)
       ELSE UNCHANGED vars

\* RegistrationComplete.handleNewRegistration
NewRegistration ==
    /\ rendered = 6
    /\ Commit(resetRegistration, pending, ui)

\* the fetch of call c ends with r and its operation runs to its return
Deliver(c, r) ==
    /\ BagIn(c, pending)
    /\ Commit(Settle(state, c.req, r),
              Remove(pending, c),
              Observed(Continue(ui, c.cont, c.attempts, Returns(r)), c, r))

Next ==
    \/ \E formData \in WizardForms : Step1Submit(formData)
    \/ \E value \in {"1", "x"} : CodeChange(value)
    \/ KeyDownBackspace
    \/ \E text \in PastedTexts : Paste(text)
    \/ SubmitButton
    \/ Tick
    \/ TotpTick
    \/ Resend
    \/ EmailFallback
    \/ TotpSetupEffect
    \/ TotpSetupContinue
    \/ \E answer \in PromptAnswers : BackupCode(answer)
    \/ DismissError
    \/ HandleBack
    \/ NewRegistration
    \/ \E c \in BagToSet(pending), r \in Responses : Deliver(c, r)

Spec == Init /\ [][Next]_vars

\* ------------------------------------------- a session the service accepts

\* The wizard with a user who only submits what the shown stage offers (the
\* valid form, digits typed or pasted into the boxes, the Verify button,
\* Continue in TOTPSetup) and a service that answers every call with an
\* acceptance carrying a user id.

SixDigits == <<"1", "1", "1", "1", "1", "1">>

Accept(c) == Deliver(c, Accepted(Some(42)))

AcceptedNext ==
    \/ Step1Submit(FormA)
    \/ CodeChange("1")
    \/ Paste(SixDigits)
    \/ SubmitButton
    \/ Tick
    \/ TotpTick
    \/ TotpSetupEffect
    \/ TotpSetupContinue
    \/ \E c \in BagToSet(pending) : Accept(c)

\* Every call is answered in the end (fetch settles each promise); React runs
\* a due effect and the intervals keep firing; the user does not stop
\* submitting while a submission is offered.
SpecAccepted ==
    /\ Init /\ [][AcceptedNext]_vars
    /\ WF_vars(\E c \in BagToSet(pending) : Accept(c))
    /\ WF_vars(TotpSetupEffect)
    /\ WF_vars(Tick) /\ WF_vars(TotpTick)
    /\ WF_vars(Step1Submit(FormA))
    /\ WF_vars(CodeChange("1"))
    /\ WF_vars(SubmitButton)
    /\ WF_vars(TotpSetupContinue)


\* ----------------------------------------------------- the hook on its own

\* useRegistration driven through the functions it returns, by any caller, in
\* any stage and any order; no step component acts.

HookForms ==
    {FormA, FormB,
     WithField(FormA, "confirmPassword", <<"P", "a", "s", "s", "w", "0", "r", "D">>)}

HookCodes == {<<"1", "1", "1", "1", "1", "1">>, <<"1", "2", "3">>}

CallRegisterStep1(data) == Invoke(registerStep1(state, data), ui, "none", 0)
CallVerifyEmail(code) == Invoke(verifyEmail(state, code), ui, "none", 0)
CallVerifyPhone(code) == Invoke(verifyPhone(state, code), ui, "none", 0)
CallSetupTOTP == Invoke(setupTOTP(state), ui, "none", 0)
CallVerifyTOTP(code) == Invoke(verifyTOTP(state, code), ui, "none", 0)
CallResendCode(type) == Invoke(resendCode(state, type), ui, "none", 0)
CallResetRegistration == Commit(resetRegistration, pending, ui)
CallSetError == Commit(setError(state, None), pending, ui)

HookNext ==
    \/ \E data \in HookForms : CallRegisterStep1(data)
    \/ \E code \in HookCodes : CallVerifyEmail(code)
    \/ \E code \in HookCodes : CallVerifyPhone(code)
    \/ CallSetupTOTP
    \/ \E code \in HookCodes : CallVerifyTOTP(code)
    \/ \E type \in {"email", "sms"} : CallResendCode(type)
    \/ CallResetRegistration
    \/ CallSetError
    \/ \E c \in BagToSet(pending), r \in Responses : Deliver(c, r)

SpecHook == Init /\ [][HookNext]_vars


\* --------------------------------------------- the client's authentication

\* The auth store called by any page, the Navbar, and API requests through
\* axiosInstance answered by the backend; the registration wizard is idle.

Statuses == {200, 401, 500}

CallLogin ==
    /\ auth' = login(auth, LoginAnswer.access_token, LoginAnswer.refresh_token,
                     LoginAnswer.user_id)
    /\ UNCHANGED <<state, pending, rendered, ui>>

\* the login page after a successful sign-in
CallSetAuth ==
    /\ auth' = setAuth(auth, LoginAnswer.access_token, LoginAnswer.refresh_token)
    /\ UNCHANGED <<state, pending, rendered, ui>>

CallLogout ==
    /\ auth' = logout(auth)
    /\ UNCHANGED <<state, pending, rendered, ui>>

CallSetUser ==
    /\ auth' = setUser(auth, [id |-> LoginAnswer.user_id, username |-> "bob"])
    /\ UNCHANGED <<state, pending, rendered, ui>>

CallCheckAuth ==
    /\ auth' = checkAuth(auth).auth
    /\ UNCHANGED <<state, pending, rendered, ui>>

\* the Navbar's mount effect: logged in when an access_token is stored
NavbarMount ==
    /\ auth' = [auth EXCEPT !.isLoggedIn = TruthyMessage(auth.localStorage.access_token)]
    /\ UNCHANGED <<state, pending, rendered, ui>>

\* the Navbar's Logout button, shown while isLoggedIn
NavbarLogout ==
    /\ auth.isLoggedIn
    /\ auth' = handleLogout(auth)
    /\ UNCHANGED <<state, pending, rendered, ui>>

\* the Navbar's links: the brand link, and Login while not logged in
FollowLink(href) ==
    /\ href = "/login" => ~auth.isLoggedIn
    /\ auth' = [auth EXCEPT !.location = href]
    /\ UNCHANGED <<state, pending, rendered, ui>>

\* a call of api.getCurrentUser, api.submitAssessment, ...
ApiRequest ==
    /\ BagCardinality(auth.requests) < MaxRequests
    /\ auth' = [auth EXCEPT !.requests =
                    @ (+) SetToBag({ApiCall(Authorization(auth), FALSE, FALSE)})]
    /\ UNCHANGED <<state, pending, rendered, ui>>

\* the backend answers request q
ApiResponds(q, status) ==
    /\ BagIn(q, auth.requests) /\ ~q.refreshing
    /\ auth' = IF status = 200
               THEN [auth EXCEPT !.requests = @ (-) SetToBag({q}),
                                 !.settled = Some("resolved")]
               ELSE OnRejected(auth, q, status)
    /\ UNCHANGED <<state, pending, rendered, ui>>

\* the refresh call made for q ends
RefreshResponds(q, answer) ==
    /\ BagIn(q, auth.requests) /\ q.refreshing
    /\ auth' = OnRefreshed(auth, q, answer)
    /\ UNCHANGED <<state, pending, rendered, ui>>

AuthNext ==
    \/ CallLogin
    \/ CallSetAuth
    \/ CallLogout
    \/ CallSetUser
    \/ CallCheckAuth
    \/ NavbarMount
    \/ NavbarLogout
    \/ \E href \in {"/", "/login"} : FollowLink(href)
    \/ ApiRequest
    \/ \E q \in BagToSet(auth.requests), status \in Statuses : ApiResponds(q, status)
    \/ \E q \in BagToSet(auth.requests), answer \in {None, Some(RefreshAnswer)} :
          RefreshResponds(q, answer)

SpecAuth == Init /\ [][AuthNext]_vars


\* ------------------------------------------------------------------ claims

\* the session fields other than isLoading and error
SessionFields(s) ==
    <<s.currentStep, s.userId, s.email, s.phone, s.qrCode, s.backupCodes>>

\* the service declined the request and said m: in the message of an OK
\* response, or in the detail (else the message) of a non-OK response
ServiceSaid(r, m) ==
    /\ r.thrown = None
    /\ ~Returns(r)
    /\ IF r.ok THEN r.message = Some(m)
       ELSE \/ r.detail = Some(m)
            \/ r.detail = None /\ r.message = Some(m)

\* C1: across every step of the wizard the stage (currentStep) never
\* decreases, except when the session is reset to its initial state.
C1_StageNeverDecreases ==
    [][state'.currentStep >= state.currentStep \/ state' = InitialState]_vars

\* the operations that are legal in a stage
LegalOperations(step) ==
    CASE step = 1 -> {"registerStep1"}
      [] step = 2 -> {"verifyEmail", "resendCode"}
      [] step = 3 -> {"verifyPhone", "resendCode"}
      [] step = 4 -> {"setupTOTP"}
      [] step = 5 -> {"verifyTOTP"}
      [] OTHER -> {}

\* the caller invokes the named operation of the hook
Invoked(op) ==
    CASE op = "registerStep1" -> \E data \in HookForms : CallRegisterStep1(data)
      [] op = "verifyEmail" -> \E code \in HookCodes : CallVerifyEmail(code)
      [] op = "verifyPhone" -> \E code \in HookCodes : CallVerifyPhone(code)
      [] op = "setupTOTP" -> CallSetupTOTP
      [] op = "verifyTOTP" -> \E code \in HookCodes : CallVerifyTOTP(code)
      [] op = "resendCode" -> \E type \in {"email", "sms"} : CallResendCode(type)

Operations ==
    {"registerStep1", "verifyEmail", "verifyPhone", "setupTOTP", "verifyTOTP",
     "resendCode"}

\* C2: an operation invoked in a stage where it is not the legal operation is
\* rejected: it sends no request and changes no session field.
C2_WrongStageRejected ==
    [][\A op \in Operations :
          (Invoked(op) /\ op \notin LegalOperations(state.currentStep))
              => (pending' = pending
                  /\ SessionFields(state') = SessionFields(state))]_vars

\* C3: the answer to a call that was outstanding when the session was reset
\* changes no field of the reset session. (A call other than register-step1
\* needs a userId and so is never sent in stage 1: one in flight in stage 1
\* was sent before a reset.)
C3_StaleResponseDiscarded ==
    [][\A c \in BagToSet(pending), r \in Responses :
          (/\ state.currentStep = 1
           /\ state.userId = None
           /\ c.req.endpoint # "register-step1"
           /\ Deliver(c, r))
              => (/\ SessionFields(state') = SessionFields(state)
                  /\ state'.error = state.error)]_vars

\* C4: at most one Identity Service call is in flight at any time.
C4_SingleCallInFlight == InFlight <= 1


ServiceMessages == {"Invalid or expired code", "Username already registered"}

\* the calls in flight to one of the endpoints; the answers that accept, and
\* the answers by which the service declines
CallsTo(endpoints) == {c \in BagToSet(pending) : c.req.endpoint \in endpoints}
Accepts == {r \in Responses : Returns(r)}
Declines == {r \in Responses : r.thrown = None /\ ~Returns(r)}

\* C5: a valid form submitted in the wizard sends exactly one request,
\* register-step1 with the form's email and phone; when that call, made in
\* stage 1, is answered with success and user_id u, the session has stage 2,
\* userId u, the submitted email and phone, and no further request is sent.
C5_AccountInfoAccepted ==
    [][/\ \A f \in ValidForms :
            Step1Submit(f) =>
                \E c \in BagToSet(pending') :
                    /\ pending' = Sent(pending, c)
                    /\ c.req.endpoint = "register-step1"
                    /\ c.req.email = f.email
                    /\ c.req.phone_number = f.phone_number
       /\ \A c \in CallsTo({"register-step1"}), r \in Accepts :
            (c.step = 1 /\ Deliver(c, r))
                => (/\ state'.currentStep = 2
                    /\ state'.userId = r.user_id
                    /\ state'.email = c.req.email
                    /\ state'.phone = c.req.phone_number
                    /\ BagCardinality(pending') = BagCardinality(pending) - 1)]_vars

\* C5 happens: the form FormA was accepted with user_id 42
C5_Witness ==
    /\ state.currentStep = 2
    /\ state.userId = Some(42)
    /\ state.email = FormA.email
    /\ state.phone = FormA.phone_number
    /\ pending = EmptyBag

\* C6: submitting a form that fails a structural check sends no request and
\* changes no field of the session.
C6_InvalidFormStaysLocal ==
    [][\A f \in InvalidForms :
          Step1Submit(f) => (pending' = pending /\ state' = state)]_vars

\* C6 happens: a submission was stopped by validateForm
C6_Witness ==
    /\ ui.errors # {}
    /\ state = InitialState
    /\ pending = EmptyBag

\* C7: when the service declines register-step1 and says m, lastError is m
\* and stage, userId, email, phone (and the TOTP data) are unchanged.
C7_RegisterRejected ==
    [][\A c \in CallsTo({"register-step1"}), r \in Declines :
          Deliver(c, r)
              => (/\ \A m \in ServiceMessages :
                        ServiceSaid(r, m) => state'.error = Some(m)
                  /\ ~state'.isLoading
                  /\ SessionFields(state') = SessionFields(state))]_vars

\* C7 happens: register-step1 was declined in the first stage
C7_Witness ==
    /\ state.currentStep = 1
    /\ state.userId = None
    /\ state.error = Some("Username already registered")
    /\ rendered = 1 /\ ui.errors = {}
    /\ pending = EmptyBag

\* C8: once userId is set, userId, email and phone change only by a reset.
C8_IdentityImmutable ==
    [][TruthyNumber(state.userId)
          => \/ /\ state'.userId = state.userId
                /\ state'.email = state.email
                /\ state'.phone = state.phone
             \/ state' = InitialState]_vars

C10_CodeRejected ==
    [][\A c \in CallsTo({"verify-email", "verify-phone"}), r \in Declines :
          Deliver(c, r)
              => (/\ state'.currentStep = state.currentStep
                  /\ \A m \in ServiceMessages :
                        ServiceSaid(r, m) => state'.error = Some(m)
                  /\ c.cont \in {"EmailVerification.handleSubmit",
                                 "PhoneVerification.handleSubmit"}
                        => ui'.code = EmptyCode)]_vars

\* C10 happens: a code was declined and the boxes are empty again
C10_Witness ==
    /\ rendered \in {2, 3}
    /\ state.currentStep = rendered
    /\ state.error = Some("Invalid or expired code")
    /\ ui.code = EmptyCode
    /\ pending = EmptyBag


\* the handleSubmit continuations of the three verification components
CodeSubmitters ==
    {"EmailVerification.handleSubmit", "PhoneVerification.handleSubmit",
     "TOTPVerification.handleSubmit"}
VerifyEndpoints == {"verify-email", "verify-phone", "verify-totp"}

\* C11: in the three verification stages the attempts count goes up by
\* exactly 1 when the service declines a submission of the mounted component,
\* does not go up when it accepts one, and is 0 right after a change of stage
\* and right after a successful resend.
C11_AttemptsCountRejections ==
    [][/\ \A c \in CallsTo(VerifyEndpoints), r \in Responses :
            (c.cont \in CodeSubmitters /\ Deliver(c, r))
                => IF r \in Declines THEN ui'.attempts = ui.attempts + 1
                   ELSE Returns(r) => ui'.attempts <= ui.attempts
       /\ rendered' # rendered => ui'.attempts = 0
       /\ \A c \in CallsTo({"request-otp"}), r \in Accepts :
            (/\ c.cont \in {"EmailVerification.handleResend",
                            "PhoneVerification.handleResend"}
             /\ Deliver(c, r))
                => ui'.attempts = 0]_vars

\* the calls of p to one of the endpoints, counted with their copies
CallCount(p, endpoints) ==
    BagCardinality([c \in {x \in BagToSet(p) : x.req.endpoint \in endpoints} |-> p[c]])

\* C12: every verify-email or verify-phone request in flight carries a code
\* of exactly six decimal digits.
C12_OnlySixDigitsSent ==
    \A c \in CallsTo({"verify-email", "verify-phone"}) :
        Len(c.req.code) = CodeLength /\ AllIn(c.req.code, Digits)

\* codes of a wrong length handed to handleSubmit
WrongLengthCodes == {<<"1", "2", "3">>, <<"1", "1", "1", "1", "1", "1", "1">>}

\* C13: in PhoneVerification and TOTPVerification, handleSubmit called with
\* a code of a wrong length leaves the attempts count one higher.
C13_LocalRejectionCounts ==
    rendered \in {3, 5}
        => \A code \in WrongLengthCodes :
              AfterHandleSubmit(ui, code).attempts = ui.attempts + 1

\* C14: once the countdown of EmailVerification or PhoneVerification has
\* reached 0, no step puts a further verify-email or verify-phone request in
\* flight.
C14_ExpiredCodeNotSent ==
    [][(rendered \in {2, 3} /\ ui.timeLeft = 0)
          => CallCount(pending', {"verify-email", "verify-phone"})
                <= CallCount(pending, {"verify-email", "verify-phone"})]_vars


\* C15: a setup-totp call made in TotpSetup and accepted there stores qrCode
\* and backupCodes and leaves the stage at TotpSetup (4).
C15_ProvisioningKeepsStage ==
    [][\A c \in CallsTo({"setup-totp"}), r \in Accepts :
          (c.step = 4 /\ state.currentStep = 4 /\ Deliver(c, r))
              => (/\ state'.qrCode = r.qr_code
                  /\ state'.backupCodes = r.backup_codes
                  /\ state'.currentStep = 4)]_vars

\* C16: when a setup-totp call of the session, made in TotpSetup, fails
\* there (network error, non-OK answer or success=false), the session fields
\* are unchanged (stage 4, qrCode and backupCodes as before), lastError is
\* set, and a further setupTOTP sends a request whose acceptance stores
\* qrCode and backupCodes.
C16_SetupFailureRetryable ==
    [][\A c \in CallsTo({"setup-totp"}), r \in Responses \ Accepts :
          (/\ c.step = 4 /\ state.currentStep = 4
           /\ c.req.user_id = state.userId
           /\ Deliver(c, r))
              => (/\ SessionFields(state') = SessionFields(state)
                  /\ TruthyMessage(state'.error)
                  /\ LET again == setupTOTP(state')
                     IN  /\ again.request # NoRequest
                         /\ \A a \in Accepts :
                              LET s == Settle(again.state, again.request[1], a)
                              IN  /\ TruthyString(s.qrCode)
                                  /\ s.backupCodes # None)]_vars

\* C16 happens: setup-totp was declined without a message in TotpSetup
C16_Witness ==
    /\ state.currentStep = 4 /\ rendered = 4
    /\ TruthyNumber(state.userId)
    /\ state.error = Some("TOTP setup failed")
    /\ state.qrCode = None /\ state.backupCodes = None

\* C17: qrCode and backupCodes are unset in the stages 1, 2 and 3, and are
\* set or unset together.
C17_ProvisioningOnlyFromTotpSetup ==
    /\ state.currentStep \in {1, 2, 3}
          => state.qrCode = None /\ state.backupCodes = None
    /\ state.qrCode = None <=> state.backupCodes = None

\* C18: in TOTPVerification an accepted verify-totp call moves the stage to
\* 6; a declined one leaves the stage and counts one more attempt (for
\* handleSubmit, which counts when it submits: more than when it was called),
\* for the six boxes and for the backup-code prompt alike.
C18_TotpSubmitOutcome ==
    [][\A c \in CallsTo({"verify-totp"}), r \in Accepts \cup Declines :
          (/\ c.step = 5 /\ state.currentStep = 5 /\ rendered = 5
           /\ c.cont \in {"TOTPVerification.handleSubmit",
                          "TOTPVerification.handleBackupCode"}
           /\ Deliver(c, r))
              => IF Returns(r) THEN state'.currentStep = 6
                 ELSE /\ state'.currentStep = 5
                      /\ IF c.cont = "TOTPVerification.handleSubmit"
                         THEN ui'.attempts > c.attempts
                         ELSE ui'.attempts = ui.attempts + 1]_vars


\* the calls in flight that the handler cont of the mounted component awaits
Awaited(cont) ==
    BagCardinality([c \in {x \in BagToSet(pending) : x.cont = cont} |-> pending[c]])

\* C19: with two failed submissions in a verification component (submissions
\* counted and answered in PhoneVerification and TOTPVerification, declined
\* submissions in EmailVerification), TOTPVerification shows the backup-code
\* entry and keeps showing it, PhoneVerification offers the resend or the
\* email fallback, EmailVerification offers the resend.
C19_AlternatePathOffered ==
    [][/\ (rendered = 5
             /\ ui.attempts - Awaited("TOTPVerification.handleSubmit") >= 2)
          => ui.showBackupOption
       /\ (rendered = 5 /\ rendered' = 5 /\ ui.showBackupOption)
          => ui'.showBackupOption
       /\ (rendered = 3
             /\ ui.attempts - Awaited("PhoneVerification.handleSubmit") >= 2)
          => (ResendOffered \/ FallbackOffered)
       /\ (rendered = 2 /\ ui.rejected >= 2) => ResendOffered]_vars

\* C20: a successful resend, by handleResend or by the email fallback of
\* PhoneVerification, leaves the mounted component with the full countdown,
\* attempts 0 and six empty boxes.
C20_ResendResets ==
    [][\A c \in CallsTo({"request-otp"}), r \in Accepts :
          (/\ rendered \in {2, 3} /\ state.currentStep = rendered
           /\ c.step = rendered
           /\ \/ c.cont \in {"EmailVerification.handleResend",
                             "PhoneVerification.handleResend"}
              \/ c.req.method = "email" /\ rendered = 3
           /\ Deliver(c, r))
              => (/\ ui'.timeLeft = CodeWindow
                  /\ ui'.attempts = 0
                  /\ ui'.code = EmptyCode)]_vars

\* C21: while the countdown of EmailVerification or PhoneVerification has not
\* reached 0 since the component was mounted, no step issues a request-otp
\* call. (EmailVerification keeps no record of a restarted countdown, so for
\* it this covers every countdown that has not reached 0.)
C21_NoResendBeforeExpiry ==
    [][(rendered \in {2, 3} /\ ~ui.canResend /\ ~ui.renewed)
          => CallCount(pending', {"request-otp"})
                 <= CallCount(pending, {"request-otp"})]_vars

\* C22: in PhoneVerification, an email resend that the service accepts while
\* the countdown restarted by a first resend is still running succeeds and
\* restarts the countdown again.
C22_SecondResendRestartsWindow ==
    [][\A c \in CallsTo({"request-otp"}), r \in Accepts :
          (/\ rendered = 3 /\ state.currentStep = 3 /\ c.step = 3
           /\ ui.renewed /\ ~ui.canResend /\ ui.timeLeft > 0
           /\ c.req.method = "email"
           /\ Deliver(c, r))
              => (/\ state'.error = None
                  /\ ~state'.isLoading
                  /\ ui'.timeLeft = CodeWindow)]_vars

\* C23: the state resetRegistration sets does not depend on the stage or on
\* any field: it is the initial session (stage 1, no userId, empty email and
\* phone, no qrCode, no backupCodes, no error, not loading), so that a
\* second reset changes nothing; and each reset made in the wizard (Back or
\* "new registration" in RegistrationComplete) leaves exactly that state.
C23_ResetRestoresInitial ==
    [][/\ resetRegistration.currentStep = 1
       /\ resetRegistration.userId = None
       /\ resetRegistration.email = <<>> /\ resetRegistration.phone = <<>>
       /\ resetRegistration.qrCode = None /\ resetRegistration.backupCodes = None
       /\ resetRegistration.error = None
       /\ ~resetRegistration.isLoading
       /\ resetRegistration = InitialState
       /\ (rendered = 6 /\ (HandleBack \/ NewRegistration))
            => (state' = InitialState /\ rendered' = 1)]_vars

\* the session was reset while a call made in stage 5, after userId, email,
\* phone, qrCode and backupCodes had been stored, was still in flight
C23_Witness ==
    /\ state = InitialState
    /\ rendered = 1
    /\ \E c \in BagToSet(pending) : c.step = 5

\* C24: every step in which an operation of the session sends a request
\* leaves error empty (and isLoading set), whatever failure it held before.
C24_NewActionClearsError ==
    [][BagCardinality(pending') > BagCardinality(pending)
          => (state'.error = None /\ state'.isLoading)]_vars

\* EmailVerification has had a submission declined, and a later verify-email
\* call is in flight with no error shown
C24_Witness ==
    /\ rendered = 2 /\ ui.rejected = 1
    /\ state.error = None
    /\ \E c \in BagToSet(pending) :
          c.req.endpoint = "verify-email" /\ c.cont = "EmailVerification.handleSubmit"

\* the answers with which an operation fails: fetch rejected, a non-OK
\* response, a response with success false
Failures == {r \in Responses : ~Returns(r)}

\* C25: in every reachable state and for every call in flight, should that
\* call end now in a failure of any of the three kinds, the operation stores
\* a non-empty reason in error (the thrown message, or what the service
\* said), leaves the stage and the other session fields as they are and ends
\* with isLoading false.
C25_FailureIsContained ==
    \A c \in BagToSet(pending), r \in Failures :
        LET after == Settle(state, c.req, r)
        IN  /\ ~Returns(r)
            /\ TruthyMessage(after.error)
            /\ r.thrown # None => after.error = r.thrown
            /\ \A m \in ServiceMessages :
                  ServiceSaid(r, m) => after.error = Some(m)
            /\ ~after.isLoading
            /\ SessionFields(after) = SessionFields(state)

\* a verify-totp submission of TOTPVerification ended with a network error
C25_Witness ==
    /\ rendered = 5 /\ state.currentStep = 5
    /\ ui.attempts = 1 /\ pending = EmptyBag
    /\ state.error = Some("Failed to fetch")
    /\ ~state.isLoading

\* the kinds of failure and the kind that matches a failing answer
FailureKinds == {"validation", "rejected", "expired", "network", "unknown"}
Cause(r) == IF r.thrown # None THEN "network" ELSE "rejected"

\* C26: what a failed operation hands to its caller holds, besides the
\* reason, one kind out of FailureKinds, the one matching the cause.
C26_FailureHasKind ==
    [][\A c \in BagToSet(pending), r \in Failures :
          Deliver(c, r)
              => LET o == Outcome(state, c.req, r)
                 IN  /\ TruthyMessage(o.state.error)
                     /\ \/ "kind" \in DOMAIN o /\ o.kind = Cause(r)
                        \/ "kind" \in DOMAIN o.state /\ o.state.kind = Cause(r)]_vars

\* C27: a tick of the code countdown or of the TOTP countdown changes
\* nothing but timeLeft, canResend and timeRemaining: the session state, the
\* calls in flight and the mounted component stay as they were. Whatever the
\* TOTP countdown shows, a pasted six-digit code can be submitted (while the
\* bounds leave room) and is sent unaltered in one verify-totp request
\* whenever the session has a userId.
C27_TicksOnlyCountDown ==
    [][/\ (Tick \/ TotpTick)
            => (/\ state' = state
                /\ pending' = pending
                /\ rendered' = rendered
                /\ ui' = [ui EXCEPT !.timeLeft = ui'.timeLeft,
                                    !.canResend = ui'.canResend,
                                    !.timeRemaining = ui'.timeRemaining])
       /\ (/\ rendered = 5 /\ ui.focus = 0
           /\ ui.attempts < MaxAttempts /\ InFlight < MaxPending)
            => ENABLED Paste(<<"1", "1", "1", "1", "1", "1">>)
       /\ (/\ rendered = 5
           /\ TruthyNumber(state.userId)
           /\ Paste(<<"1", "1", "1", "-", "1", "1", "1">>))
            => (/\ CallCount(pending', {"verify-totp"})
                      = CallCount(pending, {"verify-totp"}) + 1
                /\ \E c \in CallsTo({"verify-totp"})' :
                      /\ c.req.code = <<"1", "1", "1", "1", "1", "1">>
                      /\ c.cont = "TOTPVerification.handleSubmit")]_vars

\* the TOTP countdown is under way while a submitted code is being verified
C27_Witness ==
    /\ rendered = 5
    /\ ui.timeRemaining < TotpPeriod
    /\ \E c \in CallsTo({"verify-totp"}) : c.cont = "TOTPVerification.handleSubmit"
    /\ state.error = None

\* C28: the step component the wizard shows is the one of the session's
\* current stage, and Back, offered in stages 1 and 6 only, leaves the
\* session as it is in stage 1 and resets it to the initial one in stage 6.
C28_CurrentStageShown ==
    [][/\ rendered = state.currentStep
       /\ HandleBack
            => (/\ state.currentStep \in {1, 6}
                /\ state.currentStep = 1 => state' = state
                /\ state.currentStep = 6 => state' = InitialState)]_vars

\* the stored tokens are gone and the login page is shown
TokensCleared ==
    /\ auth.localStorage.access_token = None
    /\ auth.localStorage.refresh_token = None
    /\ auth.location = "/login"

\* C29: when a request sent with an access token ends with a 401 (no refresh
\* token is stored, or the request had been retried already), and when the
\* refresh call made for such a request fails, the tokens are removed from
\* localStorage and the login page is shown.
C29_Unrecoverable401ClearsTokens ==
    [][\A q \in BagToSet(auth.requests) :
          /\ (/\ q.authorization # None
              /\ ApiResponds(q, 401)
              /\ BagCardinality(auth'.requests) < BagCardinality(auth.requests))
                => TokensCleared'
          /\ (q.authorization # None /\ RefreshResponds(q, None))
                => TokensCleared']_vars

\* C30: after a logout by the Navbar's button or by the store's logout,
\* localStorage holds no access_token, refresh_token or user_id, the store
\* has isAuthenticated false and accessToken null, and checkAuth called next
\* returns false.
C30_LoggedOutEverywhere ==
    [][(NavbarLogout \/ CallLogout)
          => (/\ auth'.localStorage.access_token = None
              /\ auth'.localStorage.refresh_token = None
              /\ auth'.localStorage.user_id = None
              /\ ~auth'.store.isAuthenticated
              /\ auth'.store.accessToken = None
              /\ ~checkAuth(auth').returned)]_vars

\* C31: in every reachable state, a session in stage 2 to 6 has a userId
\* that is set and usable as the user_id of a request.
C31_StageImpliesUserId ==
    state.currentStep \in 2..6 => TruthyNumber(state.userId)

\* C32: in every reachable state, isLoading is true exactly when a call of
\* the session is in flight.
C32_LoadingIffInFlight ==
    state.isLoading <=> InFlight > 0

\* C33: while TOTPSetup is mounted, a setup-totp request is sent only by the
\* first run of its effect: not while a request of the effect is awaited,
\* and not again once a request of the effect has returned (isLoading false).
C33_SetupRequestedOnce ==
    [][(/\ rendered = 4
        /\ CallCount(pending', {"setup-totp"}) > CallCount(pending, {"setup-totp"}))
          => (ui.isLoading /\ Awaited("TOTPSetup.useEffect") = 0)]_vars

\* handleResend of EmailVerification and of PhoneVerification
Resenders == {"EmailVerification.handleResend", "PhoneVerification.handleResend"}

\* C34: in EmailVerification and PhoneVerification timeLeft lies in
\* 0..CodeWindow and canResend is true only with timeLeft = 0; a tick lowers
\* timeLeft by 1, or leaves it at 0; while the component stays mounted
\* timeLeft rises only when a resend of handleResend is accepted, and then
\* to CodeWindow; a failed resend leaves timeLeft and canResend as they were.
C34_CountdownWellFormed ==
    [][/\ rendered \in {2, 3}
            => (/\ ui.timeLeft \in 0..CodeWindow
                /\ ui.canResend => ui.timeLeft = 0)
       /\ Tick => ui'.timeLeft = (IF ui.timeLeft > 0 THEN ui.timeLeft - 1 ELSE 0)
       /\ (/\ rendered \in {2, 3} /\ rendered' = rendered
           /\ ui'.timeLeft > ui.timeLeft)
            => (/\ ui'.timeLeft = CodeWindow
                /\ ~ui'.canResend
                /\ \E c \in CallsTo({"request-otp"}), r \in Accepts :
                      c.cont \in Resenders /\ Deliver(c, r))
       /\ \A c \in CallsTo({"request-otp"}), r \in Failures :
            (c.cont \in Resenders /\ Deliver(c, r))
                => (/\ ui'.timeLeft = ui.timeLeft
                    /\ ui'.canResend = ui.canResend)]_vars

\* a resend of PhoneVerification was accepted and the countdown is full
\* again, with the resend disabled
C34_Witness ==
    /\ rendered = 3 /\ ui.renewed
    /\ ui.timeLeft = CodeWindow /\ ~ui.canResend

\* What the interceptor may still do for request q: 3 before its first
\* answer (a refresh, a retry and the retry's answer can follow), 2 while its
\* refresh call is awaited, 1 once it has been sent again.
StepsLeft(q) == IF ~q._retry THEN 3 ELSE IF q.refreshing THEN 2 ELSE 1

RECURSIVE StepsLeftOf(_, _)
StepsLeftOf(requests, qs) ==
    IF qs = {} THEN 0
    ELSE LET q == CHOOSE x \in qs : TRUE
         IN  CopiesIn(q, requests) * StepsLeft(q) + StepsLeftOf(requests, qs \ {q})

StepsLeftIn(requests) == StepsLeftOf(requests, BagToSet(requests))

\* C35: every answer the interceptor handles brings the requests in flight
\* closer to their end (a request is refreshed only before it carries
\* _retry, sent again only by the end of its one refresh, and then only
\* answered); an error answer to a request carrying _retry is passed to the
\* caller and leaves no refresh and no retry behind.
C35_RefreshAndRetryOnce ==
    [][/\ \A q \in BagToSet(auth.requests), status \in Statuses :
            ApiResponds(q, status)
                => (/\ StepsLeftIn(auth'.requests) < StepsLeftIn(auth.requests)
                    /\ (q._retry /\ status # 200)
                          => (/\ auth'.settled = Some("rejected")
                              /\ auth'.requests = auth.requests (-) SetToBag({q}))
                    /\ auth'.requests # auth.requests (-) SetToBag({q})
                          => (/\ status = 401 /\ ~q._retry
                              /\ auth'.requests = (auth.requests (-) SetToBag({q}))
                                     (+) SetToBag({ApiCall(q.authorization, TRUE, TRUE)})))
       /\ \A q \in BagToSet(auth.requests), answer \in {None, Some(RefreshAnswer)} :
            RefreshResponds(q, answer)
                => (/\ StepsLeftIn(auth'.requests) < StepsLeftIn(auth.requests)
                    /\ \A x \in BagToSet(auth'.requests) :
                          CopiesIn(x, auth'.requests) > CopiesIn(x, auth.requests)
                              => (x._retry /\ ~x.refreshing))]_vars

\* the request sent again after the refresh is in flight with the new token,
\* and nothing else is: its answer, whatever it is, ends the handling
C35_Witness ==
    /\ auth.requests = SetToBag({ApiCall(Some(RefreshAnswer.access_token), TRUE, FALSE)})
    /\ auth.localStorage.refresh_token = Some(RefreshAnswer.refresh_token)

\* C36: in every reachable state the store has isAuthenticated true exactly
\* when its accessToken is set, and while isAuthenticated is true its
\* accessToken is the access_token of localStorage.
C36_StoreMatchesStorage ==
    /\ auth.store.isAuthenticated <=> auth.store.accessToken # None
    /\ auth.store.isAuthenticated
          => auth.store.accessToken = auth.localStorage.access_token

\* C37: with every call accepted and the user submitting what each stage
\* offers, the session reaches Complete with RegistrationComplete shown, and
\* until then the stage only ever moves to the next one, out of a state in
\* which the component of the stage left was shown.
C37_SessionCompletes ==
    /\ [][(state.currentStep < 6 /\ state'.currentStep # state.currentStep)
            => (/\ state'.currentStep = state.currentStep + 1
                /\ rendered = state.currentStep)]_vars
    /\ <>(state.currentStep = 6 /\ rendered = 6)

====
